---- MODULE Spec2Model ----
(***************************************************************************)
(* The time-tracker bot: the per-user session state machine of            *)
(* app/class_telegram_bot.py (TelegramBot, BotUser) on top of the          *)
(* spreadsheet adapter of app/class_gsheets_handler.py (GsheetsHandler,    *)
(* TimeTracker).                                                           *)
(*                                                                         *)
(* Representation.                                                         *)
(*  - Python None is the string "None"; a dict is a function whose DOMAIN  *)
(*    is its key set ({} is <<>>).                                         *)
(*  - A worksheet is [header, rows]; a row is the tuple of its cells, a    *)
(*    blank cell is "".  The spreadsheet keeps cells as they were written. *)
(*  - The clock counts half days (ticks of 12 hours) from 30/11/2026       *)
(*    08:00:00 Europe/Berlin.                                              *)
(*  - A date string 'DD/MM/YYYY' is the tuple <<DD, MM, YYYY>> of its      *)
(*    three fixed-width fields, so that the lexical order of the strings   *)
(*    is the lexicographic order of the tuples.                            *)
(*  - A coordinate is a whole number of tenths of a degree.                *)
(***************************************************************************)
EXTENDS Integers, Sequences, FiniteSets, TLC

VARIABLES
    registered_users,   \* TelegramBot.registered_users: user id -> BotUser
    sh,                 \* GsheetsHandler.sh: worksheet title -> worksheet
    now,                \* the wall clock, in ticks of 12 hours
    reply,              \* the event handled last and the notice it sent
    chat,               \* the users whose chats send events in this run
    wizard_log,         \* history: per user, whether the wizard was opened in
                        \* this process and the texts sent to it since
    host_zone,          \* the seconds by which the local time of the host the
                        \* process runs on is ahead of Europe/Berlin
    calls,              \* the add_time_record calls of callers that run side
                        \* by side: those that have read and not yet written,
                        \* those that have written, and counts of both
    backend,            \* the spreadsheet service: whether its calls succeed
                        \* ("up") or raise ("down"), and the number of calls
                        \* of add_time_record and save_user_config that raised
    process             \* the operating system process: the script it was
                        \* started with, TELEGRAM_TOKEN, how far the startup
                        \* has come, the step that failed and the exit status

\* What no event handler changes.
outside == <<host_zone, calls, backend, process>>

vars == <<registered_users, sh, now, reply, chat, wizard_log, host_zone, calls,
          backend, process>>

(***************************************************************************)
(* Bounds of the model.                                                    *)
(***************************************************************************)
\* The clock stops after MaxTime ticks.
MaxTime == 2
\* A description cell takes at most MaxNotes appended voice notes.
MaxNotes == 1
\* The count of store calls that raised stops at MaxFailures.
MaxFailures == 2
\* While a wizard is answered amid other events the clock advances at most
\* MaxWait times.
MaxWait == 1
\* At most MaxCalls calls of add_time_record are begun side by side in a run.
MaxCalls == 3
\* The OCR sheet of a user takes at most MaxOcrRows rows.
MaxOcrRows == 1

(***************************************************************************)
(* Inputs.                                                                 *)
(***************************************************************************)
\* GsheetsHandler.users_config: the static user table.
users_config == (1794622246 :> "Shane_Hill") @@ (495992751 :> "Dmitry_Pozdniakov")

\* The users that send events: one listed in users_config, one not.
Users == {495992751, 42}

\* BotUser.username for each user.
Username(user_id) == "tg" \o ToString(user_id)

\* Location shares: Berlin (52.5, 13.4) and a point on the equator in Gabon
\* (0.0, 10.0), whose zone, Africa/Libreville, has Berlin's winter time.
Locations ==
    { [latitude |-> 525, longitude |-> 134],
      [latitude |-> 0,   longitude |-> 100] }

\* Text messages, some with surrounding whitespace.
Texts == {"a", " b ", " "}

\* What the transcription service returns for a voice note.
\* The zones a host of the process may keep its local time in, as seconds
\* ahead of Europe/Berlin: Europe/Berlin, UTC, Asia/Kolkata (in winter).
HostZones == {0, -3600, 16200}

Transcriptions == {"None", "v"}

\* What the download and the transcription of a voice message come to: a
\* transcription, or an exception ("Error").
VoiceOutcomes == Transcriptions \cup {"Error"}

\* What the table extraction returns for a photo.
Extractions == {"None", "bmw", "table"}

(***************************************************************************)
(* Python helpers.                                                         *)
(***************************************************************************)
\* dict.get(key, default)
DictGet(d, key, default) == IF key \in DOMAIN d THEN d[key] ELSE default

\* d[key] = value
DictSet(d, key, value) ==
    [k \in (DOMAIN d) \cup {key} |-> IF k = key THEN value ELSE d[k]]

RECURSIVE LStrip(_)
LStrip(s) ==
    IF Len(s) > 0 /\ SubSeq(s, 1, 1) = " " THEN LStrip(SubSeq(s, 2, Len(s))) ELSE s

RECURSIVE RStrip(_)
RStrip(s) ==
    IF Len(s) > 0 /\ SubSeq(s, Len(s), Len(s)) = " "
    THEN RStrip(SubSeq(s, 1, Len(s) - 1)) ELSE s

\* str.strip()
Strip(s) == RStrip(LStrip(s))

\* `value or ""` for a coordinate: 0.0 is falsy.
OrBlank(value) == IF value = 0 THEN "" ELSE ToString(value)

\* A faulty LexLess: the dates are compared as calendar dates.
LexLess_Calendar(a, b) ==
    \/ a[3] < b[3]
    \/ a[3] = b[3] /\ a[2] < b[2]
    \/ a[3] = b[3] /\ a[2] = b[2] /\ a[1] < b[1]

\* Lexical order of two 'DD/MM/YYYY' strings.
LexLess(a, b) ==
    \/ a[1] < b[1]
    \/ a[1] = b[1] /\ a[2] < b[2]
    \/ a[1] = b[1] /\ a[2] = b[2] /\ a[3] < b[3]

(***************************************************************************)
(* Time.                                                                   *)
(***************************************************************************)
\* The offset, in ticks, of the zone timezonefinder gives for a location,
\* relative to Europe/Berlin: twelve hours in New Zealand (east of 165 E),
\* none at the locations of Europe and Africa shared here.
TzShift(latitude, longitude) == IF longitude > 1650 THEN 1 ELSE 0

\* strftime('%d/%m/%Y') of a local tick: day 0 is 30/11/2026.
DateStr(tick) ==
    LET day == tick \div 2
    IN  IF day = 0 THEN <<30, 11, 2026>> ELSE <<day, 12, 2026>>

\* strftime('%H:%M:%S') of a local tick.
TimeStr(tick) == IF tick % 2 = 0 THEN "08:00:00" ELSE "20:00:00"

\* GsheetsHandler._get_local_time: the clock in the zone of the location.
_get_local_time(latitude, longitude) == now + TzShift(latitude, longitude)

\* datetime.now(Europe/Berlin).strftime('%d/%m/%Y') in TimeTracker.update_description
Today == DateStr(now)

(***************************************************************************)
(* Worksheets.                                                             *)
(***************************************************************************)
\* Headers of setup_user_timesheets (8 columns), _setup_unknown_user_sheet
\* (9 columns) and setup_config_sheet.
UserHeaders ==
    <<"Date", "clock_in", "clock_out", "Latitude In", "Longitude In",
      "Latitude Out", "Longitude Out", "Description">>
UnknownHeaders ==
    <<"Date", "clock_in", "clock_out", "Latitude In", "Longitude In",
      "Latitude Out", "Longitude Out", "Duration", "Description">>
ConfigHeaders ==
    <<"User ID", "Username", "Project Name", "Project Location",
      "Contractor Name", "Lunch Duration", "Last Updated">>

EmptySheet(headers) == [header |-> headers, rows |-> <<>>]

\* Worksheet.get_all_records: one dict per row under the header row, keyed by
\* the header cells; cells beyond the header are dropped.
get_all_records(wks) ==
    [i \in 1..Len(wks.rows) |->
        [key \in {wks.header[j] : j \in 1..Len(wks.header)} |->
            LET j == CHOOSE c \in 1..Len(wks.header) : wks.header[c] = key
            IN  IF j <= Len(wks.rows[i]) THEN wks.rows[i][j] ELSE ""]]

\* A faulty update_row: the sheet is left with the written row alone.
update_row_Alone(wks, index, values) == [wks EXCEPT !.rows = <<values>>]

\* Worksheet.update_row(index, values): sheet row `index` is rows[index - 1];
\* the cells written replace the first Len(values) cells of the row.
update_row(wks, index, values) ==
    LET at == index - 1
        old == IF at <= Len(wks.rows) THEN wks.rows[at] ELSE <<>>
        new == [c \in 1..(IF Len(old) > Len(values) THEN Len(old) ELSE Len(values)) |->
                   IF c <= Len(values) THEN values[c] ELSE old[c]]
    IN  [wks EXCEPT !.rows =
            IF at <= Len(wks.rows) THEN [wks.rows EXCEPT ![at] = new]
            ELSE Append(wks.rows, new)]

\* A faulty update_value: the value goes to the clock_in cell of the row.
update_value_ClockIn(wks, index, col, value) ==
    [wks EXCEPT !.rows[index - 1][2] = value]

\* Worksheet.update_value((row, col), value)
update_value(wks, index, col, value) ==
    LET at == index - 1
        old == wks.rows[at]
        new == [c \in 1..(IF Len(old) > col THEN Len(old) ELSE col) |->
                   IF c = col THEN value ELSE IF c <= Len(old) THEN old[c] ELSE ""]
    IN  [wks EXCEPT !.rows[at] = new]

\* A faulty get_user_sheet_name: every user is sent to the first listed
\* user's sheet.
get_user_sheet_name_Shared(user_id) == "Timesheet_Shane_Hill"

\* GsheetsHandler.get_user_sheet_name: the title.
get_user_sheet_name(user_id) ==
    IF user_id \in DOMAIN users_config
    THEN "Timesheet_" \o users_config[user_id]
    ELSE "Timesheet_Unknown"

\* GsheetsHandler._setup_unknown_user_sheet, as get_user_sheet_name calls it
\* for a user absent from users_config: the workbook afterwards.
_setup_unknown_user_sheet(book, user_id) ==
    IF user_id \in DOMAIN users_config \/ "Timesheet_Unknown" \in DOMAIN book
    THEN book
    ELSE book @@ ("Timesheet_Unknown" :> EmptySheet(UnknownHeaders))

(***************************************************************************)
(* The record store adapter (GsheetsHandler).  Each operation takes the    *)
(* workbook and yields the workbook afterwards and/or its return value.    *)
(***************************************************************************)
Min(S) == CHOOSE x \in S : \A y \in S : x <= y

\* The Duration formula add_time_record writes on a clock-out update.
DurationFormula(existing_row) ==
    "=TEXT(C" \o ToString(existing_row) \o "-B" \o ToString(existing_row) \o ")"

\* GsheetsHandler.add_time_record: the row it writes when a row of today's
\* date exists.
UpdatedRow(current_record, existing_row, action, date_str, time_str, latitude, longitude) ==
    IF action = "clock_in"
    THEN << date_str,
            time_str,
            DictGet(current_record, "clock_out", ""),
            OrBlank(latitude),
            OrBlank(longitude),
            DictGet(current_record, "Latitude Out", ""),
            DictGet(current_record, "Longitude Out", ""),
            DictGet(current_record, "Duration", ""),
            DictGet(current_record, "Description", "") >>
    ELSE << date_str,
            DictGet(current_record, "clock_in", ""),
            time_str,
            DictGet(current_record, "Latitude In", ""),
            DictGet(current_record, "Longitude In", ""),
            OrBlank(latitude),
            OrBlank(longitude),
            DurationFormula(existing_row),
            DictGet(current_record, "Description", "") >>

\* GsheetsHandler.add_time_record: the row it writes when no row of today's
\* date exists.
NewRow(action, date_str, time_str, latitude, longitude) ==
    IF action = "clock_in"
    THEN <<date_str, time_str, "", OrBlank(latitude), OrBlank(longitude), "", "", "", "">>
    ELSE <<date_str, "", time_str, "", "", OrBlank(latitude), OrBlank(longitude), "", "">>

\* GsheetsHandler.add_time_record up to its write (lines 112-156, 160-187):
\* the sheet, the date and time, the row of today's date found in the records
\* read (0 when none), the index and the cells it is going to write, and the
\* row it found there (blank when none).
add_time_record_read(book, user_id, action, latitude, longitude) ==
    LET book1       == _setup_unknown_user_sheet(book, user_id)
        sheet_name  == get_user_sheet_name(user_id)
        wks         == book1[sheet_name]
        local_time  == _get_local_time(latitude, longitude)
        date_str    == DateStr(local_time)
        time_str    == TimeStr(local_time)
        all_records == get_all_records(wks)
        found       == {i \in 1..Len(all_records) :
                            DictGet(all_records[i], "Date", "None") = date_str}
        existing_row == IF found = {} THEN 0 ELSE Min(found) + 1
    IN  [sheet_name   |-> sheet_name,
         action       |-> action,
         date_str     |-> date_str,
         time_str     |-> time_str,
         latitude     |-> latitude,
         longitude    |-> longitude,
         existing_row |-> existing_row,
         index        |-> IF existing_row # 0 THEN existing_row
                          ELSE Len(all_records) + 2,
         row_data     |-> IF existing_row # 0
                          THEN UpdatedRow(all_records[existing_row - 1], existing_row,
                                          action, date_str, time_str, latitude, longitude)
                          ELSE NewRow(action, date_str, time_str, latitude, longitude),
         seen         |-> IF existing_row # 0 THEN wks.rows[existing_row - 1]
                          ELSE <<>>]

\* An upsert that reads again when it writes: the row is found and merged in
\* the workbook as it is at the write.
add_time_record_write_Atomic(book, call) ==
    LET wks         == book[call.sheet_name]
        all_records == get_all_records(wks)
        found       == {i \in 1..Len(all_records) :
                            DictGet(all_records[i], "Date", "None") = call.date_str}
        existing_row == IF found = {} THEN 0 ELSE Min(found) + 1
    IN  IF existing_row # 0
        THEN [book EXCEPT ![call.sheet_name] =
                update_row(wks, existing_row,
                    UpdatedRow(all_records[existing_row - 1], existing_row, call.action,
                               call.date_str, call.time_str,
                               call.latitude, call.longitude))]
        ELSE [book EXCEPT ![call.sheet_name] =
                update_row(wks, Len(all_records) + 2,
                    NewRow(call.action, call.date_str, call.time_str,
                           call.latitude, call.longitude))]

\* GsheetsHandler.add_time_record, its write (lines 157, 188): update_row at
\* the index and with the cells found before.
add_time_record_write(book, call) ==
    [book EXCEPT ![call.sheet_name] = update_row(@, call.index, call.row_data)]

\* GsheetsHandler.add_time_record (through TimeTracker.add_record): the
\* workbook after the upsert.
add_time_record(book, user_id, action, latitude, longitude) ==
    add_time_record_write(_setup_unknown_user_sheet(book, user_id),
        add_time_record_read(book, user_id, action, latitude, longitude))

\* A faulty update_description: the note goes to the first row of the sheet,
\* whatever its date.
update_description_AnyRow(book, user_id, date_str, description) ==
    LET book1      == _setup_unknown_user_sheet(book, user_id)
        sheet_name == get_user_sheet_name(user_id)
    IN  IF sheet_name \notin DOMAIN book1 \/ Len(book1[sheet_name].rows) = 0
        THEN [ok |-> FALSE, book |-> book1]
        ELSE [ok   |-> TRUE,
              book |-> [book1 EXCEPT ![sheet_name] =
                           update_value(book1[sheet_name], 2, 9, description)]]

\* GsheetsHandler.update_description: [ok, book]: whether a row of the date
\* was found, and the workbook afterwards.
update_description(book, user_id, date_str, description) ==
    LET book1       == _setup_unknown_user_sheet(book, user_id)
        sheet_name  == get_user_sheet_name(user_id)
    IN  IF sheet_name \notin DOMAIN book1
        THEN [ok |-> FALSE, book |-> book1]
        ELSE
        LET wks         == book1[sheet_name]
            all_records == get_all_records(wks)
            found       == {i \in 1..Len(all_records) :
                                DictGet(all_records[i], "Date", "None") = date_str}
        IN  IF found = {}
            THEN [ok |-> FALSE, book |-> book1]
            ELSE
            LET i == Min(found)
                current_description == DictGet(all_records[i], "Description", "")
                new_description ==
                    IF current_description # ""
                    THEN current_description \o "; " \o description
                    ELSE description
            IN  [ok   |-> TRUE,
                 book |-> [book1 EXCEPT ![sheet_name] =
                              update_value(wks, i + 1, 9, new_description)]]

\* The index of the record that all_records.sort(key=Date, reverse=True)
\* puts first: the lexically greatest date string, the earliest row among
\* equal dates (the sort is stable).
LatestIndex(all_records) ==
    CHOOSE i \in 1..Len(all_records) :
        /\ \A j \in 1..Len(all_records) :
              ~LexLess(all_records[i]["Date"], all_records[j]["Date"])
        /\ \A j \in 1..(i - 1) : all_records[j]["Date"] # all_records[i]["Date"]

\* GsheetsHandler.get_last_action: [action, time], action "None" for None.
get_last_action(book, user_id) ==
    LET book1      == _setup_unknown_user_sheet(book, user_id)
        sheet_name == get_user_sheet_name(user_id)
        none       == [action |-> "None", time |-> ""]
    IN  IF sheet_name \notin DOMAIN book1 THEN none
        ELSE
        LET all_records == get_all_records(book1[sheet_name])
        IN  IF Len(all_records) = 0 THEN none
            ELSE
            LET latest_record == all_records[LatestIndex(all_records)]
                clock_in  == DictGet(latest_record, "clock_in", "")
                clock_out == DictGet(latest_record, "clock_out", "")
            IN  IF clock_out # "" THEN [action |-> "clock_out", time |-> clock_out]
                ELSE IF clock_in # "" THEN [action |-> "clock_in", time |-> clock_in]
                ELSE none

\* A faulty save_user_config: every save appends a row.
save_user_config_Append(book, user_id, config) ==
    LET config_wks == book["User_Config"]
    IN  [book EXCEPT !["User_Config"] =
            update_row(config_wks, Len(get_all_records(config_wks)) + 2,
                << ToString(user_id),
                   DictGet(config, "username", ""),
                   DictGet(config, "project_name", ""),
                   DictGet(config, "project_location", ""),
                   DictGet(config, "contractor_name", ""),
                   DictGet(config, "lunch_duration", ""),
                   now >>)]

\* GsheetsHandler.save_user_config: the workbook after the save.
save_user_config(book, user_id, config) ==
    LET config_wks  == book["User_Config"]
        all_records == get_all_records(config_wks)
        found       == {i \in 1..Len(all_records) :
                            DictGet(all_records[i], "User ID", "None") = ToString(user_id)}
        config_data == << ToString(user_id),
                          DictGet(config, "username", ""),
                          DictGet(config, "project_name", ""),
                          DictGet(config, "project_location", ""),
                          DictGet(config, "contractor_name", ""),
                          DictGet(config, "lunch_duration", ""),
                          now >>
    IN  [book EXCEPT !["User_Config"] =
            update_row(config_wks,
                       IF found # {} THEN Min(found) + 1 ELSE Len(all_records) + 2,
                       config_data)]

\* A faulty get_user_config: the first record is returned, whoever saved it.
get_user_config_First(book, user_id) ==
    IF "User_Config" \notin DOMAIN book THEN <<>>
    ELSE
    LET all_records == get_all_records(book["User_Config"])
    IN  IF Len(all_records) = 0 THEN <<>>
        ELSE [username         |-> DictGet(all_records[1], "Username", ""),
              project_name     |-> DictGet(all_records[1], "Project Name", ""),
              project_location |-> DictGet(all_records[1], "Project Location", ""),
              contractor_name  |-> DictGet(all_records[1], "Contractor Name", ""),
              lunch_duration   |-> DictGet(all_records[1], "Lunch Duration", ""),
              last_updated     |-> DictGet(all_records[1], "Last Updated", "")]

\* GsheetsHandler.get_user_config: the dict, or <<>> for None.
get_user_config(book, user_id) ==
    IF "User_Config" \notin DOMAIN book THEN <<>>
    ELSE
    LET all_records == get_all_records(book["User_Config"])
        found       == {i \in 1..Len(all_records) :
                            DictGet(all_records[i], "User ID", "None") = ToString(user_id)}
    IN  IF found = {} THEN <<>>
        ELSE
        LET record == all_records[Min(found)]
        IN  [username         |-> DictGet(record, "Username", ""),
             project_name     |-> DictGet(record, "Project Name", ""),
             project_location |-> DictGet(record, "Project Location", ""),
             contractor_name  |-> DictGet(record, "Contractor Name", ""),
             lunch_duration   |-> DictGet(record, "Lunch Duration", ""),
             last_updated     |-> DictGet(record, "Last Updated", "")]

(***************************************************************************)
(* Sessions (BotUser).                                                     *)
(***************************************************************************)
\* BotUser.last_clock_in is None, a 'HH:MM:SS' string read from the sheet
\* (set by /start) or a datetime (set by a clock-in of this process).
NoClockIn == [type |-> "None", str |-> "", tick |-> 0]
StrClockIn(timestamp) == [type |-> "str", str |-> timestamp, tick |-> 0]
DatetimeClockIn(tick) == [type |-> "datetime", str |-> "", tick |-> tick]

\* BotUser.__init__
BotUser ==
    [ is_clocked_in     |-> FALSE,
      last_clock_in     |-> NoClockIn,
      awaiting_location |-> FALSE,
      pending_action    |-> "None",
      config_step       |-> "None",
      temp_config       |-> <<>> ]

\* A faulty get_main_keyboard: every button, whatever the clock state.
get_main_keyboard_All(user) == {"clock_in", "clock_out", "config"}

\* BotUser.get_main_keyboard: the callback_data of its buttons.
get_main_keyboard(user) ==
    IF user.is_clocked_in THEN {"clock_out"} ELSE {"clock_in", "config"}

\* A call of the spreadsheet service raises (network, authorisation).
StoreFails == backend.mode # "up"

\* A faulty adapter: a call that raised is made a second time.
StoreAttempts_Retry(operation) == 2

\* The calls of the service add_time_record or save_user_config makes, up to
\* the one that raises: the exception leaves the adapter at once.
StoreAttempts(operation) == 1

\* GsheetsHandler.add_time_record raises: a call of the service fails, or
\* worksheet_by_title (line 113) finds no sheet of the user's title.
add_time_record_raises(book, user_id) ==
    \/ StoreFails
    \/ get_user_sheet_name(user_id) \notin DOMAIN _setup_unknown_user_sheet(book, user_id)

\* GsheetsHandler.save_user_config raises: a call of the service fails, or
\* worksheet_by_title (line 300) finds no User_Config.
save_user_config_raises(book) ==
    \/ StoreFails
    \/ "User_Config" \notin DOMAIN book

\* A faulty Registered: every event begins a new session.
Registered_Fresh(user_id) ==
    [u \in DOMAIN registered_users \cup {user_id} |->
        IF u = user_id THEN BotUser ELSE registered_users[u]]

\* `if user_id not in self.registered_users: self.registered_users[user_id] = BotUser(update)`
Registered(user_id) ==
    IF user_id \in DOMAIN registered_users
    THEN registered_users
    ELSE registered_users @@ (user_id :> BotUser)

\* TelegramBot._calculate_duration, for a start time and the seconds that
\* have passed since it when it is a datetime.
_calculate_duration(start_time, elapsed_seconds) ==
    IF start_time.type = "None" THEN "0h 0m"
    ELSE IF start_time.type = "str" THEN "0h 0m"    \* no ISO date in 'HH:MM:SS'
    ELSE IF elapsed_seconds < 0 THEN "0h 0m"
    ELSE LET hours   == elapsed_seconds \div 3600
             minutes == (elapsed_seconds % 3600) \div 60
         IN  ToString(hours) \o "h " \o ToString(minutes) \o "m"

\* The seconds _calculate_duration finds between a clock-in at a tick and
\* now: the clock-in is kept as the host's local time without a zone
\* (datetime.now()), is read as a time of Europe/Berlin, and is taken from
\* the current time of Europe/Berlin.
SecondsSince(tick) == (now - tick) * 43200 - host_zone

\* The notice a handler sends, with the duration it reports ("" when none).
Notice(user_id, event, notice, duration) ==
    [to |-> user_id, event |-> event, notice |-> notice, duration |-> duration]

(***************************************************************************)
(* Event handlers (TelegramBot), one action each.                          *)
(***************************************************************************)
\* TelegramBot.start
start(user_id) ==
    LET users       == Registered(user_id)
        last_action == get_last_action(sh, user_id)
        user        == users[user_id]
        user1 ==
            IF last_action.action = "None" THEN user
            ELSE [user EXCEPT
                    !.is_clocked_in = (last_action.action = "clock_in"),
                    !.last_clock_in = IF last_action.action = "clock_in"
                                      THEN StrClockIn(last_action.time)
                                      ELSE @]
    IN  IF StoreFails
        THEN /\ registered_users' = users
             /\ reply' = Notice(user_id, "start", "unexpected_error", "")
             /\ UNCHANGED <<sh, now, chat>>
        ELSE
        /\ registered_users' = [users EXCEPT ![user_id] = user1]
        /\ sh' = _setup_unknown_user_sheet(sh, user_id)
        /\ reply' = Notice(user_id, "start", "welcome", "")
        /\ UNCHANGED <<now, chat>>

\* TelegramBot.help_command
help_command(user_id) ==
    /\ reply' = Notice(user_id, "help", "help", "")
    /\ UNCHANGED <<registered_users, sh, now, chat>>

\* A faulty status_command: it answers without creating the session.
status_command_NoSession(user_id) ==
    LET last_action == get_last_action(sh, user_id)
    IN  /\ sh' = _setup_unknown_user_sheet(sh, user_id)
        /\ reply' = Notice(user_id, "status",
                        IF last_action.action = "clock_in" THEN "status_clocked_in"
                        ELSE IF last_action.action = "clock_out" THEN "status_clocked_out"
                        ELSE "status_no_records", "")
        /\ UNCHANGED <<registered_users, now, chat>>

\* A faulty status_command: it sets the session's clock state from the last
\* action, as /start does.
status_command_Sync(user_id) ==
    LET last_action == get_last_action(sh, user_id)
    IN  /\ registered_users' =
              [Registered(user_id) EXCEPT
                  ![user_id].is_clocked_in = (last_action.action = "clock_in")]
        /\ sh' = _setup_unknown_user_sheet(sh, user_id)
        /\ reply' = Notice(user_id, "status",
                        IF last_action.action = "clock_in" THEN "status_clocked_in"
                        ELSE IF last_action.action = "clock_out" THEN "status_clocked_out"
                        ELSE "status_no_records", "")
        /\ UNCHANGED <<now, chat>>

\* TelegramBot.status_command
status_command(user_id) ==
    LET last_action == get_last_action(sh, user_id)
    IN  IF StoreFails
        THEN /\ registered_users' = Registered(user_id)
             /\ reply' = Notice(user_id, "status", "unexpected_error", "")
             /\ UNCHANGED <<sh, now, chat>>
        ELSE
        /\ registered_users' = Registered(user_id)
        /\ sh' = _setup_unknown_user_sheet(sh, user_id)
        /\ reply' = Notice(user_id, "status",
                        IF last_action.action = "clock_in" THEN "status_clocked_in"
                        ELSE IF last_action.action = "clock_out" THEN "status_clocked_out"
                        ELSE "status_no_records", "")
        /\ UNCHANGED <<now, chat>>

\* TelegramBot.config_command
config_command(user_id) ==
    LET users == Registered(user_id)
    IN  IF StoreFails
        THEN /\ registered_users' = users
             /\ reply' = Notice(user_id, "config", "unexpected_error", "")
             /\ UNCHANGED <<sh, now, chat>>
        ELSE
        /\ registered_users' =
              [users EXCEPT ![user_id].config_step = "project_name",
                            ![user_id].temp_config = <<>>]
        /\ reply' = Notice(user_id, "config", "config_prompt", "")
        /\ UNCHANGED <<sh, now, chat>>

\* A faulty ClockInRefused: the guard is dropped, every press asks for a location.
ClockInRefused_Dropped(user) == FALSE

\* `if user.is_clocked_in:` of the clock_in branch of button_callback
ClockInRefused(user) == user.is_clocked_in

\* A faulty ClockOutRefused: the guard is dropped.
ClockOutRefused_Dropped(user) == FALSE

\* `if not user.is_clocked_in:` of the clock_out branch of button_callback
ClockOutRefused(user) == ~user.is_clocked_in

\* A faulty RequestLocation: the flag is raised, the action is not noted.
RequestLocation_FlagOnly(user, action) ==
    [user EXCEPT !.awaiting_location = TRUE]

\* `user.awaiting_location = True; user.pending_action = ...` of the clock_in
\* and clock_out branches of button_callback
RequestLocation(user, action) ==
    [user EXCEPT !.awaiting_location = TRUE, !.pending_action = action]

\* TelegramBot.button_callback
button_callback(user_id, action) ==
    LET users == Registered(user_id)
        user  == users[user_id]
    IN  /\ UNCHANGED <<sh, now, chat>>
        /\ IF action = "clock_in"
           THEN IF ClockInRefused(user)
                THEN /\ registered_users' = users
                     /\ reply' = Notice(user_id, "clock_in", "already_clocked_in", "")
                ELSE /\ registered_users' =
                          [users EXCEPT ![user_id] = RequestLocation(user, "clock_in")]
                     /\ reply' = Notice(user_id, "clock_in", "location_prompt", "")
           ELSE IF action = "clock_out"
           THEN IF ClockOutRefused(user)
                THEN /\ registered_users' = users
                     /\ reply' = Notice(user_id, "clock_out", "not_clocked_in", "")
                ELSE /\ registered_users' =
                          [users EXCEPT ![user_id] = RequestLocation(user, "clock_out")]
                     /\ reply' = Notice(user_id, "clock_out", "location_prompt", "")
           ELSE IF StoreFails
           THEN /\ action = "config"
                /\ registered_users' = users
                /\ reply' = Notice(user_id, "config_button", "unexpected_error", "")
           ELSE /\ action = "config"
                /\ registered_users' =
                      [users EXCEPT ![user_id].config_step = "project_name",
                                    ![user_id].temp_config = <<>>]
                /\ reply' = Notice(user_id, "config_button", "config_prompt", "")

\* A faulty LocationRequested: a share is taken whenever an action is pending
\* or the user is clocked in.
LocationRequested_Loose(user) == user.awaiting_location \/ user.is_clocked_in

\* `if not user.awaiting_location:` of location_handler, negated
LocationRequested(user) == user.awaiting_location

\* TelegramBot.location_handler.  On a clock-out the success message calls
\* user.last_clock_in.strftime, which only a datetime has: with a str or None
\* the handler raises after add_record and before the session is updated,
\* and error_handler sends the generic notice.
location_handler(user_id, latitude, longitude) ==
    IF user_id \notin DOMAIN registered_users
    THEN /\ reply' = Notice(user_id, "location", "please_start", "")
         /\ UNCHANGED <<registered_users, sh, now, chat>>
    ELSE
    LET user == registered_users[user_id]
    IN  /\ UNCHANGED <<now, chat>>
        /\ IF ~LocationRequested(user)
           THEN /\ reply' = Notice(user_id, "location", "not_requested", "")
                /\ UNCHANGED <<registered_users, sh>>
           ELSE IF /\ user.pending_action \in {"clock_in", "clock_out"}
                   /\ add_time_record_raises(sh, user_id)
           THEN /\ reply' = Notice(user_id, "location", "unexpected_error", "")
                /\ UNCHANGED <<registered_users, sh>>
           ELSE IF user.pending_action = "clock_in"
           THEN /\ sh' = add_time_record(sh, user_id, "clock_in", latitude, longitude)
                /\ registered_users' =
                      [registered_users EXCEPT
                          ![user_id].is_clocked_in = TRUE,
                          ![user_id].last_clock_in = DatetimeClockIn(now),
                          ![user_id].awaiting_location = FALSE,
                          ![user_id].pending_action = "None"]
                /\ reply' = Notice(user_id, "location", "clocked_in", "")
           ELSE IF user.pending_action = "clock_out"
           THEN /\ sh' = add_time_record(sh, user_id, "clock_out", latitude, longitude)
                /\ IF user.last_clock_in.type = "datetime"
                   THEN /\ registered_users' =
                              [registered_users EXCEPT
                                  ![user_id].is_clocked_in = FALSE,
                                  ![user_id].last_clock_in = NoClockIn,
                                  ![user_id].awaiting_location = FALSE,
                                  ![user_id].pending_action = "None"]
                        /\ reply' = Notice(user_id, "location", "clocked_out",
                                        _calculate_duration(user.last_clock_in,
                                            SecondsSince(user.last_clock_in.tick)))
                   ELSE /\ UNCHANGED registered_users
                        /\ reply' = Notice(user_id, "location", "unexpected_error", "")
           ELSE \* no pending action: success_message is unbound at the reply
                /\ registered_users' =
                      [registered_users EXCEPT
                          ![user_id].awaiting_location = FALSE,
                          ![user_id].pending_action = "None"]
                /\ reply' = Notice(user_id, "location", "unexpected_error", "")
                /\ UNCHANGED sh

\* A faulty NextStep: the wizard ends after the contractor name.
NextStep_Short(config_step) ==
    IF config_step = "project_name" THEN "project_location"
    ELSE IF config_step = "project_location" THEN "contractor_name"
    ELSE "None"

\* The key each wizard step stores its text under is the step's own name;
\* the step that follows it.
NextStep(config_step) ==
    IF config_step = "project_name" THEN "project_location"
    ELSE IF config_step = "project_location" THEN "contractor_name"
    ELSE IF config_step = "contractor_name" THEN "lunch_duration"
    ELSE "None"

\* A faulty StepKey: the contractor name overwrites the project location.
StepKey_Shifted(config_step) ==
    IF config_step = "contractor_name" THEN "project_location" ELSE config_step

\* The key of temp_config a wizard step writes.
StepKey(config_step) == config_step

\* TelegramBot.text_handler
text_handler(user_id, message_text) ==
    IF user_id \notin DOMAIN registered_users
    THEN /\ reply' = Notice(user_id, "text", "please_start", "")
         /\ UNCHANGED <<registered_users, sh, now, chat>>
    ELSE
    LET user == registered_users[user_id]
        text == Strip(message_text)
    IN  /\ UNCHANGED <<now, chat>>
        /\ IF user.config_step # "None"
           THEN IF user.config_step \in {"project_name", "project_location", "contractor_name"}
                THEN /\ registered_users' =
                          [registered_users EXCEPT
                              ![user_id].temp_config =
                                  DictSet(@, StepKey(user.config_step), text),
                              ![user_id].config_step = NextStep(user.config_step)]
                     /\ reply' = Notice(user_id, "text", "step_prompt", "")
                     /\ UNCHANGED sh
                ELSE IF user.config_step = "lunch_duration"
                THEN LET temp_config ==
                            DictSet(DictSet(user.temp_config, StepKey(user.config_step), text),
                                    "username", Username(user_id))
                     IN  IF save_user_config_raises(sh)
                         THEN /\ registered_users' =
                                   [registered_users EXCEPT
                                       ![user_id].temp_config = temp_config]
                              /\ reply' = Notice(user_id, "text", "unexpected_error", "")
                              /\ UNCHANGED sh
                         ELSE
                         /\ sh' = save_user_config(sh, user_id, temp_config)
                         /\ registered_users' =
                              [registered_users EXCEPT
                                  ![user_id].config_step = "None",
                                  ![user_id].temp_config = <<>>]
                         /\ reply' = Notice(user_id, "text", "config_saved", "")
                ELSE /\ reply' = Notice(user_id, "text", "None", "")
                     /\ UNCHANGED <<registered_users, sh>>
           ELSE /\ UNCHANGED <<registered_users, sh>>
                /\ reply' = Notice(user_id, "text",
                                IF user.awaiting_location THEN "share_location_prompt"
                                ELSE "use_buttons", "")

\* The number of '; ' separators in a description.
RECURSIVE CountNotes(_)
CountNotes(s) ==
    IF Len(s) < 2 THEN 0
    ELSE IF SubSeq(s, 1, 2) = "; " THEN 1 + CountNotes(SubSeq(s, 3, Len(s)))
    ELSE CountNotes(SubSeq(s, 2, Len(s)))

\* No description of a timesheet holds more than MaxNotes appended notes.
WithinNotes(book) ==
    \A title \in DOMAIN book : \A i \in 1..Len(book[title].rows) :
        LET row == book[title].rows[i]
        IN  Len(row) >= 9 => CountNotes(row[9]) <= MaxNotes

\* TelegramBot.voice_handler
voice_handler(user_id, transcription) ==
    IF user_id \notin DOMAIN registered_users
    THEN /\ reply' = Notice(user_id, "voice", "please_start", "")
         /\ UNCHANGED <<registered_users, sh, now, chat>>
    ELSE IF transcription = "None"
    THEN /\ reply' = Notice(user_id, "voice", "voice_not_transcribed", "")
         /\ UNCHANGED <<registered_users, sh, now, chat>>
    ELSE IF transcription = "Error" \/ StoreFails
    THEN /\ reply' = Notice(user_id, "voice", "voice_error", "")
         /\ UNCHANGED <<registered_users, sh, now, chat>>
    ELSE
    LET result == update_description(sh, user_id, Today, transcription)
    IN  /\ WithinNotes(result.book)
        /\ sh' = result.book
        /\ reply' = Notice(user_id, "voice",
                        IF result.ok THEN "voice_added" ELSE "voice_no_record", "")
        /\ UNCHANGED <<registered_users, now, chat>>

\* The title of the sheet _save_table_data writes to.
OcrSheetName(user_id) ==
    "OCR_Data_" \o (IF user_id \in DOMAIN users_config THEN users_config[user_id]
                    ELSE "Unknown")

OcrHeaders ==
    <<"Timestamp", "Source", "Raw Text", "Table Headers", "All Cells",
      "Marks Detected", "Marked Positions", "Processed">>

\* TelegramBot._save_table_data for one extracted entry: the workbook after.
_save_table_data(book, user_id) ==
    LET book1 == _setup_unknown_user_sheet(book, user_id)
        ocr_sheet_name == OcrSheetName(user_id)
        book2 == IF ocr_sheet_name \in DOMAIN book1 THEN book1
                 ELSE book1 @@ (ocr_sheet_name :> EmptySheet(OcrHeaders))
        ocr_wks == book2[ocr_sheet_name]
        next_row == Len(get_all_records(ocr_wks)) + 2
    IN  [book2 EXCEPT ![ocr_sheet_name] =
            update_row(ocr_wks, next_row,
                <<"timestamp", "llamaparse_ocr", "raw", "headers", "cells", "marks", "positions", "False">>)]

\* TelegramBot.image_handler.  A station table calls
\* gsheets_handler.create_bmw_station_status_sheet, which GsheetsHandler does
\* not define: the handler's except branch answers.
image_handler(user_id, extracted_data) ==
    IF user_id \notin DOMAIN registered_users
    THEN /\ reply' = Notice(user_id, "photo", "please_start", "")
         /\ UNCHANGED <<registered_users, sh, now, chat>>
    ELSE IF extracted_data = "None"
    THEN /\ reply' = Notice(user_id, "photo", "image_no_table", "")
         /\ UNCHANGED <<registered_users, sh, now, chat>>
    ELSE IF extracted_data = "bmw"
    THEN /\ reply' = Notice(user_id, "photo", "image_error", "")
         /\ UNCHANGED <<registered_users, sh, now, chat>>
    ELSE IF StoreFails
    THEN /\ reply' = Notice(user_id, "photo", "image_not_saved", "")
         /\ UNCHANGED <<registered_users, sh, now, chat>>
    ELSE /\ OcrSheetName(user_id) \in DOMAIN sh
            => Len(sh[OcrSheetName(user_id)].rows) < MaxOcrRows
         /\ sh' = _save_table_data(sh, user_id)
         /\ reply' = Notice(user_id, "photo", "image_saved", "")
         /\ UNCHANGED <<registered_users, now, chat>>

(***************************************************************************)
(* The environment.                                                        *)
(***************************************************************************)
\* Twelve hours pass.
Tick ==
    /\ now < MaxTime
    /\ now' = now + 1
    /\ UNCHANGED <<registered_users, sh, reply, chat, wizard_log, outside>>

NoNotice == Notice(0, "None", "None", "")

\* A process whose startup is done: run_polling takes the updates.
Polling == [script |-> "run.py", token |-> "t", phase |-> "polling",
            failed |-> "None", status |-> -1]

Reachable == [mode |-> "up", failed |-> 0]

NoCalls == [begun |-> 0, written |-> 0, reading |-> {}, done |-> {}]

NoLog == [user_id \in Users |-> [opened |-> FALSE, texts |-> <<>>]]

\* GsheetsHandler.setup_config_sheet and setup_user_timesheets: the sheets
\* that are missing are added with their headers.
setup_sheets(book) ==
    [title \in DOMAIN book \cup {"User_Config"} \cup
                {"Timesheet_" \o users_config[u] : u \in DOMAIN users_config} |->
        IF title \in DOMAIN book THEN book[title]
        ELSE IF title = "User_Config" THEN EmptySheet(ConfigHeaders)
        ELSE EmptySheet(UserHeaders)]

\* The process is started again (TelegramBot.__init__) while the service
\* answers: the sessions are gone, the workbook stays; its setup finds the
\* sheets it made before and adds those that are missing.
Restart ==
    /\ ~StoreFails
    /\ registered_users' = <<>>
    /\ sh' = setup_sheets(sh)
    /\ reply' = NoNotice
    /\ wizard_log' = NoLog
    /\ UNCHANGED <<now, chat, outside>>

\* After construction: no session; GsheetsHandler.__init__ has made
\* User_Config and one timesheet per listed user.
Init ==
    /\ registered_users = <<>>
    /\ sh = [title \in {"User_Config"} \cup
                       {"Timesheet_" \o users_config[u] : u \in DOMAIN users_config} |->
                IF title = "User_Config" THEN EmptySheet(ConfigHeaders)
                ELSE EmptySheet(UserHeaders)]
    /\ now = 0
    /\ reply = NoNotice
    /\ \E user_id \in Users : chat = {user_id}
    /\ wizard_log = NoLog
    /\ host_zone = 0
    /\ calls = NoCalls
    /\ backend = Reachable
    /\ process = Polling

\* The history after the wizard is opened for a user.
Opened(user_id) ==
    [wizard_log EXCEPT ![user_id] = [opened |-> TRUE, texts |-> <<>>]]

\* The history after a text message: the wizard takes it when a step is active.
Logged(user_id, message_text) ==
    IF /\ user_id \in DOMAIN registered_users
       /\ registered_users[user_id].config_step # "None"
    THEN [wizard_log EXCEPT ![user_id].texts = Append(@, message_text)]
    ELSE wizard_log

Start ==
    \E user_id \in chat : start(user_id) /\ UNCHANGED <<wizard_log, outside>>
Help ==
    \E user_id \in chat : help_command(user_id) /\ UNCHANGED <<wizard_log, outside>>
Status ==
    \E user_id \in chat : status_command(user_id) /\ UNCHANGED <<wizard_log, outside>>
Config ==
    \E user_id \in chat : config_command(user_id) /\ wizard_log' = Opened(user_id) /\ UNCHANGED outside
Button ==
    \E user_id \in chat : \E action \in {"clock_in", "clock_out", "config"} :
        /\ button_callback(user_id, action)
        /\ wizard_log' = IF action = "config" THEN Opened(user_id) ELSE wizard_log
        /\ UNCHANGED outside
Location ==
    \E user_id \in chat : \E location \in Locations :
        /\ location_handler(user_id, location.latitude, location.longitude)
        /\ UNCHANGED <<wizard_log, outside>>
Text ==
    \E user_id \in chat : \E message_text \in Texts :
        /\ text_handler(user_id, message_text)
        /\ wizard_log' = Logged(user_id, message_text)
        /\ UNCHANGED outside
\* A text message of a user who is not answering the wizard.
TextOutsideWizard ==
    \E user_id \in chat : \E message_text \in Texts :
        /\ user_id \in DOMAIN registered_users
              => registered_users[user_id].config_step = "None"
        /\ text_handler(user_id, message_text)
        /\ UNCHANGED <<wizard_log, outside>>
Voice ==
    \E user_id \in chat : \E transcription \in Transcriptions :
        voice_handler(user_id, transcription) /\ UNCHANGED <<wizard_log, outside>>
\* A voice message with any outcome.
VoiceAny ==
    \E user_id \in chat : \E transcription \in VoiceOutcomes :
        voice_handler(user_id, transcription) /\ UNCHANGED <<wizard_log, outside>>
Photo ==
    \E user_id \in chat : \E extracted_data \in Extractions :
        image_handler(user_id, extracted_data) /\ UNCHANGED <<wizard_log, outside>>

(***************************************************************************)
(* Spec: the clock flow.  One user chats; commands, button presses,        *)
(* location shares and texts arrive in any order, the clock advances and   *)
(* the process may be started again.  The wizard is opened but its         *)
(* questions are not answered.                                             *)
(***************************************************************************)
Next ==
    \/ Start
    \/ Help
    \/ Status
    \/ Config
    \/ Button
    \/ Location
    \/ TextOutsideWizard
    \/ Tick
    \/ Restart

Spec == Init /\ [][Next]_vars

(***************************************************************************)
(* SpecWizard: the configuration wizard.  One user chats; every text is    *)
(* delivered, no location is shared, so that the timesheets stay empty.    *)
(***************************************************************************)
NextWizard ==
    \/ Start
    \/ Help
    \/ Status
    \/ Config
    \/ Button
    \/ Text
    \/ Tick
    \/ Restart

SpecWizard == Init /\ [][NextWizard]_vars

\* The clock and the voice notes: sessions, clock-ins and clock-outs, and
\* voice notes on the day's row.
ClockButton ==
    \E user_id \in chat : \E action \in {"clock_in", "clock_out"} :
        button_callback(user_id, action) /\ UNCHANGED <<wizard_log, outside>>

NextVoice ==
    \/ Start
    \/ ClockButton
    \/ Location
    \/ Voice
    \/ Tick

SpecVoice == Init /\ [][NextVoice]_vars

\* Every kind of inbound event, on one day: the handlers as _setup_handlers
\* registers them, and the process started again.
NextSession ==
    \/ Start
    \/ Help
    \/ Status
    \/ Config
    \/ Button
    \/ Location
    \/ TextOutsideWizard
    \/ VoiceAny
    \/ Photo
    \/ Restart

SpecSession == Init /\ [][NextSession]_vars

\* The configuration sheet across runs: the workbook already holds the row
\* another user saved in an earlier run of the process; the chatting user
\* opens the wizard with /config and answers it.
InitConfig ==
    /\ registered_users = <<>>
    /\ sh = [title \in {"User_Config"} \cup
                       {"Timesheet_" \o users_config[u] : u \in DOMAIN users_config} |->
                IF title = "User_Config"
                THEN [header |-> ConfigHeaders,
                      rows   |-> << <<"1794622246", "Shane_Hill", "a", "b", "", "a", 0>> >>]
                ELSE EmptySheet(UserHeaders)]
    /\ now = 0
    /\ reply = NoNotice
    /\ \E user_id \in Users : chat = {user_id}
    /\ wizard_log = NoLog
    /\ host_zone = 0
    /\ calls = NoCalls
    /\ backend = Reachable
    /\ process = Polling

NextConfig ==
    \/ Config
    \/ Text
    \/ Tick
    \/ Restart

SpecConfig == InitConfig /\ [][NextConfig]_vars

\* The clock on a host of any zone: sessions, clock-ins and clock-outs.
InitDuration ==
    /\ registered_users = <<>>
    /\ sh = [title \in {"User_Config"} \cup
                       {"Timesheet_" \o users_config[u] : u \in DOMAIN users_config} |->
                IF title = "User_Config" THEN EmptySheet(ConfigHeaders)
                ELSE EmptySheet(UserHeaders)]
    /\ now = 0
    /\ reply = NoNotice
    /\ \E user_id \in Users : chat = {user_id}
    /\ wizard_log = NoLog
    /\ host_zone \in HostZones
    /\ calls = NoCalls
    /\ backend = Reachable
    /\ process = Polling

NextDuration ==
    \/ Start
    \/ ClockButton
    \/ Location
    \/ Tick

SpecDuration == InitDuration /\ [][NextDuration]_vars

\* add_time_record called side by side (by processes that share the
\* workbook): a call reads the sheet and works out its row, and writes it in
\* a later step.
BeginUpsert ==
    \E user_id \in chat : \E action \in {"clock_in", "clock_out"} :
    \E location \in Locations :
        LET call == add_time_record_read(sh, user_id, action,
                                         location.latitude, location.longitude)
        IN  /\ calls.begun < MaxCalls
            /\ sh' = _setup_unknown_user_sheet(sh, user_id)
            /\ calls' = [calls EXCEPT
                            !.begun = @ + 1,
                            !.reading = @ \cup
                                {call @@ [id |-> calls.begun + 1,
                                          read_at |-> calls.written]}]
            /\ UNCHANGED <<registered_users, now, reply, chat, wizard_log, host_zone,
                           backend, process>>

FinishUpsert ==
    \E call \in calls.reading :
        /\ sh' = add_time_record_write(sh, call)
        /\ calls' = [calls EXCEPT
                        !.written = @ + 1,
                        !.reading = @ \ {call},
                        !.done = @ \cup {call @@ [wrote_at |-> calls.written + 1]}]
        /\ UNCHANGED <<registered_users, now, reply, chat, wizard_log, host_zone,
                       backend, process>>

NextUpsert ==
    \/ BeginUpsert
    \/ FinishUpsert
    \/ Tick

SpecUpsert == Init /\ [][NextUpsert]_vars

\* The operations that reach the workbook, over several days: /status, the
\* wizard opened and answered, clock-ins and clock-outs, voice notes.
Answer ==
    \E user_id \in chat :
        /\ text_handler(user_id, "a")
        /\ UNCHANGED <<wizard_log, outside>>

\* A location in Berlin is shared.
Share ==
    \E user_id \in chat :
        location_handler(user_id, 525, 134) /\ UNCHANGED <<wizard_log, outside>>

NextRows ==
    \/ Status
    \/ Config
    \/ Answer
    \/ ClockButton
    \/ Share
    \/ Voice
    \/ Tick

SpecRows == Init /\ [][NextRows]_vars

\* Worksheets that go missing: someone removes a tab of the spreadsheet
\* while the process runs.
DeleteWorksheet ==
    \E title \in DOMAIN sh \cap
                 ({"User_Config", "Timesheet_Unknown"} \cup
                  {"Timesheet_" \o users_config[u] : u \in DOMAIN users_config}) :
        /\ sh' = [t \in DOMAIN sh \ {title} |-> sh[t]]
        /\ UNCHANGED <<registered_users, now, reply, chat, wizard_log, outside>>

NextMissing ==
    \/ DeleteWorksheet
    \/ Start
    \/ Status
    \/ Config
    \/ Answer
    \/ ClockButton
    \/ Share
    \/ Voice
    \/ Restart

SpecMissing == Init /\ [][NextMissing]_vars

\* The service fails and recovers while a user clocks in and out and answers
\* the wizard; the calls that raise are counted.
Outage ==
    /\ backend' = [backend EXCEPT !.mode = IF @ = "up" THEN "down" ELSE "up"]
    /\ UNCHANGED <<registered_users, sh, now, reply, chat, wizard_log, host_zone,
                   calls, process>>

ShareCounted ==
    \E user_id \in chat :
        LET raises == /\ user_id \in DOMAIN registered_users
                      /\ registered_users[user_id].awaiting_location
                      /\ registered_users[user_id].pending_action \in {"clock_in", "clock_out"}
                      /\ add_time_record_raises(sh, user_id)
        IN  /\ raises => backend.failed < MaxFailures
            /\ location_handler(user_id, 525, 134)
            /\ backend' = IF raises
                           THEN [backend EXCEPT
                                    !.failed = @ + StoreAttempts("add_time_record")]
                           ELSE backend
            /\ UNCHANGED <<wizard_log, host_zone, calls, process>>

AnswerCounted ==
    \E user_id \in chat :
        LET raises == /\ user_id \in DOMAIN registered_users
                      /\ registered_users[user_id].config_step = "lunch_duration"
                      /\ save_user_config_raises(sh)
        IN  /\ raises => backend.failed < MaxFailures
            /\ text_handler(user_id, "a")
            /\ backend' = IF raises
                           THEN [backend EXCEPT
                                    !.failed = @ + StoreAttempts("save_user_config")]
                           ELSE backend
            /\ UNCHANGED <<wizard_log, host_zone, calls, process>>

NextOutage ==
    \/ Outage
    \/ Config
    \/ AnswerCounted
    \/ ClockButton
    \/ ShareCounted
    \/ Tick

SpecOutage == Init /\ [][NextOutage]_vars

\* The startup of the process, by either script: tracker.main reads the
\* token, builds the bot (and with it the adapter) and calls bot.run; once
\* run_polling takes updates the handlers serve them.
Scripts == {"run.py", "tracker.py"}
Tokens == {"None", "", "t"}

InitStartup ==
    /\ registered_users = <<>>
    /\ sh = <<>>
    /\ now = 0
    /\ reply = NoNotice
    /\ \E user_id \in Users : chat = {user_id}
    /\ wizard_log = NoLog
    /\ host_zone = 0
    /\ calls = NoCalls
    /\ backend = Reachable
    /\ \E script \in Scripts : \E token \in Tokens :
          process = [script |-> script, token |-> token, phase |-> "launched",
                     failed |-> "None", status |-> -1]

\* The process ends with a status.
Exited(failed, status) ==
    [process EXCEPT !.phase = "exited", !.failed = failed, !.status = status]

\* tracker.main, lines 13-18: without a token, exit(1).
ReadToken ==
    /\ process.phase = "launched"
    /\ process' = IF process.token \in {"None", ""}
                  THEN Exited("token", 1)
                  ELSE [process EXCEPT !.phase = "configured"]
    /\ UNCHANGED <<registered_users, sh, now, reply, chat, wizard_log, host_zone,
                   calls, backend>>

\* tracker.main, line 26: TelegramBot(...) builds the application and the
\* adapter, whose setup makes the sheets.  An exception leaves main: run.py
\* logs it and calls sys.exit(1); with tracker.py the interpreter ends with
\* status 1.
Construct ==
    /\ process.phase = "configured"
    /\ \E raises \in BOOLEAN :
          IF raises
          THEN /\ process' = Exited("construct", 1)
               /\ UNCHANGED sh
          ELSE /\ process' = [process EXCEPT !.phase = "constructed"]
               /\ sh' = setup_sheets(sh)
    /\ UNCHANGED <<registered_users, now, reply, chat, wizard_log, host_zone,
                   calls, backend>>

\* TelegramBot.run: run_polling starts, or raises; run logs the exception
\* and returns, main returns and the script ends: status 0.
RunPolling ==
    /\ process.phase = "constructed"
    /\ \E raises \in BOOLEAN :
          process' = IF raises THEN Exited("run_polling", 0)
                     ELSE [process EXCEPT !.phase = "polling"]
    /\ UNCHANGED <<registered_users, sh, now, reply, chat, wizard_log, host_zone,
                   calls, backend>>

\* The bot is stopped by a signal: run_polling returns, status 0.
Stop ==
    /\ process.phase = "polling"
    /\ process' = Exited("None", 0)
    /\ UNCHANGED <<registered_users, sh, now, reply, chat, wizard_log, host_zone,
                   calls, backend>>

\* Updates are handled while the process polls.
Serve ==
    /\ process.phase = "polling"
    /\ \/ Start
       \/ ClockButton
       \/ Location

NextStartup ==
    \/ ReadToken
    \/ Construct
    \/ RunPolling
    \/ Stop
    \/ Serve

SpecStartup == InitStartup /\ [][NextStartup]_vars

\* The wizard amid the other events: it is opened and answered while
\* commands, clock presses, location shares, voice messages and photos
\* arrive and the clock advances.
Wait ==
    /\ now < MaxWait
    /\ Tick

NextAmid ==
    \/ Config
    \/ Answer
    \/ Start
    \/ Help
    \/ Status
    \/ ClockButton
    \/ Share
    \/ VoiceAny
    \/ Photo
    \/ Wait

SpecAmid == Init /\ [][NextAmid]_vars

\* Two users that users_config does not list chat side by side: both are
\* sent to the sheet Timesheet_Unknown.  Each shares a place of their own,
\* Berlin and Munich, both in the zone Europe/Berlin.
Strangers == {42, 43}

PlaceOf(user_id) ==
    IF user_id = 42 THEN [latitude |-> 525, longitude |-> 134]
    ELSE [latitude |-> 481, longitude |-> 116]

InitShared ==
    /\ registered_users = <<>>
    /\ sh = setup_sheets(<<>>)
    /\ now = 0
    /\ reply = NoNotice
    /\ chat = Strangers
    /\ wizard_log = NoLog
    /\ host_zone = 0
    /\ calls = NoCalls
    /\ backend = Reachable
    /\ process = Polling

ShareOwn ==
    \E user_id \in chat :
        /\ location_handler(user_id, PlaceOf(user_id).latitude, PlaceOf(user_id).longitude)
        /\ UNCHANGED <<wizard_log, outside>>

NextShared ==
    \/ ClockButton
    \/ ShareOwn
    \/ Tick

SpecShared == InitShared /\ [][NextShared]_vars

(***************************************************************************)
(* Claims.                                                                 *)
(***************************************************************************)
HasSession(user_id) == user_id \in DOMAIN registered_users

\* The rows of a user's timesheet in a workbook (none when the sheet is missing).
RowsOf(book, user_id) ==
    IF get_user_sheet_name(user_id) \in DOMAIN book
    THEN book[get_user_sheet_name(user_id)].rows
    ELSE <<>>

\* The session of the user awaits a location for the action.
Awaiting(user_id, action) ==
    /\ HasSession(user_id)
    /\ registered_users[user_id].awaiting_location
    /\ registered_users[user_id].pending_action = action

\* C1: in every reachable session state awaiting_location = true and
\* config_step non-null never hold at the same time.
C1_NeverBothActive ==
    \A user_id \in DOMAIN registered_users :
        ~ ( /\ registered_users[user_id].awaiting_location
            /\ registered_users[user_id].config_step # "None" )

\* No two rows of a timesheet carry the same date string.
DatesUnique(rows) ==
    \A i, j \in 1..Len(rows) : rows[i][1] = rows[j][1] => i = j

\* C2: a user's timesheet holds at most one row per date string, and a
\* clock-out on a date that already has a row updates that row, which then
\* carries both the clock_in and the clock_out value, and adds no row.
C2_OneRowPerDate ==
    [][ /\ \A user_id \in Users : DatesUnique(RowsOf(sh', user_id))
        /\ \A user_id \in chat : \A location \in Locations :
              ( /\ Awaiting(user_id, "clock_out")
                /\ location_handler(user_id, location.latitude, location.longitude) )
              => LET date_str == DateStr(_get_local_time(location.latitude, location.longitude))
                     before   == RowsOf(sh, user_id)
                     after    == RowsOf(sh', user_id)
                 IN  (\E i \in 1..Len(before) : before[i][1] = date_str)
                     => /\ Len(after) = Len(before)
                        /\ \A i \in 1..Len(before) :
                              before[i][1] = date_str
                              => /\ after[i][1] = date_str
                                 /\ after[i][2] # ""
                                 /\ after[i][3] # ""
      ]_vars

\* C3: from every state with awaiting_location = true and pending_action =
\* clock_out, a location share writes the clock-out time to today's row,
\* emits a duration and ends with awaiting_location = false, pending_action
\* = null, clocked_in = false and last_clock_in = null.
C3_ClockOutCompletes ==
    [][ \A user_id \in chat : \A location \in Locations :
          ( /\ Awaiting(user_id, "clock_out")
            /\ location_handler(user_id, location.latitude, location.longitude) )
          => LET local_time == _get_local_time(location.latitude, location.longitude)
                 after      == RowsOf(sh', user_id)
                 user       == registered_users'[user_id]
             IN  /\ \E i \in 1..Len(after) :
                        /\ after[i][1] = DateStr(local_time)
                        /\ after[i][3] = TimeStr(local_time)
                 /\ reply'.notice = "clocked_out"
                 /\ reply'.duration # ""
                 /\ ~user.awaiting_location
                 /\ user.pending_action = "None"
                 /\ ~user.is_clocked_in
                 /\ user.last_clock_in = NoClockIn
      ]_vars

\* C4: from every state with awaiting_location = true and pending_action =
\* clock_in, a location share writes the clock-in time and the received
\* coordinates to today's row and ends with awaiting_location = false,
\* pending_action = null, clocked_in = true and last_clock_in = now.
C4_ClockInCompletes ==
    [][ \A user_id \in chat : \A location \in Locations :
          ( /\ Awaiting(user_id, "clock_in")
            /\ location_handler(user_id, location.latitude, location.longitude) )
          => LET local_time == _get_local_time(location.latitude, location.longitude)
                 after      == RowsOf(sh', user_id)
                 user       == registered_users'[user_id]
             IN  /\ \E i \in 1..Len(after) :
                        /\ after[i][1] = DateStr(local_time)
                        /\ after[i][2] = TimeStr(local_time)
                        /\ after[i][4] = ToString(location.latitude)
                        /\ after[i][5] = ToString(location.longitude)
                 /\ ~user.awaiting_location
                 /\ user.pending_action = "None"
                 /\ user.is_clocked_in
                 /\ user.last_clock_in = DatetimeClockIn(now)
      ]_vars

\* C5: a clock_in button press received while the session's clocked_in is
\* true changes no session field and writes nothing to the store; only the
\* 'already clocked in' notice is sent.
C5_ClockInWhileClockedIn ==
    [][ \A user_id \in chat :
          ( /\ HasSession(user_id)
            /\ registered_users[user_id].is_clocked_in
            /\ button_callback(user_id, "clock_in") )
          => /\ registered_users' = registered_users
             /\ sh' = sh
             /\ reply' = Notice(user_id, "clock_in", "already_clocked_in", "")
      ]_vars

\* C5, its case: the press of a clocked-in user has been answered.
C5_Witness ==
    \E user_id \in chat :
        /\ HasSession(user_id)
        /\ registered_users[user_id].is_clocked_in
        /\ reply = Notice(user_id, "clock_in", "already_clocked_in", "")
        /\ Len(RowsOf(sh, user_id)) > 0

\* C6: a clock_out button press received while the session's clocked_in is
\* false changes no session field and writes nothing to the store; only the
\* 'not clocked in' notice is sent.
C6_ClockOutWhileClockedOut ==
    [][ \A user_id \in chat :
          ( /\ HasSession(user_id)
            /\ ~registered_users[user_id].is_clocked_in
            /\ button_callback(user_id, "clock_out") )
          => /\ registered_users' = registered_users
             /\ sh' = sh
             /\ reply' = Notice(user_id, "clock_out", "not_clocked_in", "")
      ]_vars

\* C6, its case: the press of a user who clocked in and out has been answered.
C6_Witness ==
    \E user_id \in chat :
        /\ HasSession(user_id)
        /\ ~registered_users[user_id].is_clocked_in
        /\ reply = Notice(user_id, "clock_out", "not_clocked_in", "")
        /\ \E i \in 1..Len(RowsOf(sh, user_id)) : RowsOf(sh, user_id)[i][3] # ""

C8_NoTransitionWhileAwaiting ==
    [][ \A user_id \in chat :
          ( /\ HasSession(user_id)
            /\ registered_users[user_id].awaiting_location
            /\ \/ start(user_id)
               \/ help_command(user_id)
               \/ status_command(user_id)
               \/ config_command(user_id)
               \/ \E action \in {"clock_in", "clock_out", "config"} :
                     button_callback(user_id, action)
               \/ \E message_text \in Texts : text_handler(user_id, message_text) )
          => LET before == registered_users[user_id]
                 after  == registered_users'[user_id]
             IN  /\ after.awaiting_location = before.awaiting_location
                 /\ after.pending_action = before.pending_action
                 /\ after.is_clocked_in = before.is_clocked_in
                 /\ after.config_step = before.config_step
      ]_vars

\* The wizard steps in the order the branches of text_handler chain them.
StepsInOrder ==
    <<"project_name", "project_location", "contractor_name", "lunch_duration">>

\* C9: after the wizard is opened the configuration is saved and config_step
\* returns to null on the fourth text since opening and never earlier;
\* temp_config is empty when the wizard opens and empty again after the save.
C9_SavedOnFourthText ==
    [][ \A user_id \in chat :
          LET before == wizard_log[user_id]
              after  == wizard_log'[user_id]
          IN  /\ after.opened =>
                    /\ user_id \in DOMAIN registered_users'
                    /\ Len(after.texts) <= 4
                    /\ Len(after.texts) < 4
                          => registered_users'[user_id].config_step # "None"
                    /\ Len(after.texts) = 0
                          => /\ registered_users'[user_id].config_step = "project_name"
                             /\ registered_users'[user_id].temp_config = <<>>
                    /\ Len(after.texts) = 4
                          => /\ registered_users'[user_id].config_step = "None"
                             /\ registered_users'[user_id].temp_config = <<>>
                             /\ get_user_config(sh', user_id) # <<>>
              /\ ( \/ sh'["User_Config"] # sh["User_Config"]
                   \/ reply' # reply /\ reply'.notice = "config_saved" )
                    => /\ before.opened
                       /\ Len(before.texts) = 3
                       /\ Len(after.texts) = 4
              /\ ( before.opened /\ Len(before.texts) = 3 /\ Len(after.texts) = 4 )
                    => reply' = Notice(user_id, "text", "config_saved", "")
      ]_vars

\* C9, its case: the fourth text has been answered by the save.
C9_Witness ==
    \E user_id \in chat :
        /\ wizard_log[user_id].opened
        /\ Len(wizard_log[user_id].texts) = 4
        /\ reply = Notice(user_id, "text", "config_saved", "")
        /\ registered_users[user_id].config_step = "None"
        /\ get_user_config(sh, user_id) # <<>>

\* C10: the wizard visits its steps in the order project_name,
\* project_location, contractor_name, lunch_duration and stores each
\* (trimmed) text under the key of the step that was active; the row saved
\* at completion holds exactly the four texts entered since the wizard was
\* last opened.
C10_StepsInOrder ==
    \A user_id \in chat :
        wizard_log[user_id].opened =>
            LET texts == wizard_log[user_id].texts
                count == Len(texts)
                user  == registered_users[user_id]
                saved == get_user_config(sh, user_id)
            IN  /\ count < 4 =>
                      /\ user.config_step = StepsInOrder[count + 1]
                      /\ DOMAIN user.temp_config = {StepsInOrder[k] : k \in 1..count}
                      /\ \A k \in 1..count :
                            user.temp_config[StepsInOrder[k]] = Strip(texts[k])
                /\ count = 4 =>
                      /\ saved # <<>>
                      /\ \A k \in 1..4 : saved[StepsInOrder[k]] = Strip(texts[k])

\* C10, its case: a wizard that was abandoned after a first answer, reopened
\* and completed with different texts has been saved.
C10_Witness ==
    \E user_id \in chat :
        /\ wizard_log[user_id].opened
        /\ wizard_log[user_id].texts = <<" b ", "a", " ", " b ">>
        /\ reply = Notice(user_id, "text", "config_saved", "")
        /\ get_user_config(sh, user_id).project_name = "b"
        /\ get_user_config(sh, user_id).contractor_name = ""

\* The records of a user's timesheet as get_all_records reads them (none
\* when the sheet is missing).
RecordsOf(book, user_id) ==
    IF get_user_sheet_name(user_id) \in DOMAIN book
    THEN get_all_records(book[get_user_sheet_name(user_id)])
    ELSE <<>>

\* The cell of column I, where update_description writes ("" when the row
\* is shorter).
DescriptionCell(row) == IF Len(row) >= 9 THEN row[9] ELSE ""

\* The fields an update of an existing row by the action is to leave alone.
KeptFields(action) ==
    IF action = "clock_in"
    THEN {"clock_out", "Latitude Out", "Longitude Out", "Description"}
    ELSE {"clock_in", "Latitude In", "Longitude In", "Description"}

\* C11: when add_time_record finds a row of today's date, a clock_in update
\* leaves the row's clock_out, Latitude Out, Longitude Out and Description as
\* they were and a clock_out update leaves clock_in, Latitude In, Longitude
\* In and Description as they were, on the sheets of listed users and on the
\* fallback sheet.
C11_UpdateKeepsOtherFields ==
    [][ \A user_id \in chat : \A location \in Locations :
        \A action \in {"clock_in", "clock_out"} :
          ( /\ Awaiting(user_id, action)
            /\ location_handler(user_id, location.latitude, location.longitude) )
          => LET date_str == DateStr(_get_local_time(location.latitude, location.longitude))
                 before   == RecordsOf(sh, user_id)
                 after    == RecordsOf(sh', user_id)
             IN  \A i \in 1..Len(before) :
                    before[i]["Date"] = date_str
                    => /\ \A field \in KeptFields(action) :
                             DictGet(after[i], field, "") = DictGet(before[i], field, "")
                       /\ DescriptionCell(RowsOf(sh', user_id)[i])
                             = DescriptionCell(RowsOf(sh, user_id)[i])
      ]_vars

\* The cells a new row of the action fills: the date, the action's time and
\* the action's coordinates as received.
FilledCells(action, date_str, time_str, latitude, longitude) ==
    IF action = "clock_in"
    THEN (1 :> date_str) @@ (2 :> time_str)
            @@ (4 :> ToString(latitude)) @@ (5 :> ToString(longitude))
    ELSE (1 :> date_str) @@ (3 :> time_str)
            @@ (6 :> ToString(latitude)) @@ (7 :> ToString(longitude))

\* C12: when no row of the user's sheet has today's date, add_time_record
\* writes one new row at the first index after all existing records, filling
\* only the date, the action's time and the action's coordinates and leaving
\* every other field blank; no existing row is changed.
C12_AppendsNewRow ==
    [][ \A user_id \in chat : \A location \in Locations :
        \A action \in {"clock_in", "clock_out"} :
          ( /\ Awaiting(user_id, action)
            /\ location_handler(user_id, location.latitude, location.longitude) )
          => LET local_time == _get_local_time(location.latitude, location.longitude)
                 before     == RowsOf(sh, user_id)
                 after      == RowsOf(sh', user_id)
                 filled     == FilledCells(action, DateStr(local_time), TimeStr(local_time),
                                           location.latitude, location.longitude)
             IN  (\A i \in 1..Len(before) : before[i][1] # DateStr(local_time))
                 => /\ Len(after) = Len(before) + 1
                    /\ \A i \in 1..Len(before) : after[i] = before[i]
                    /\ \A c \in 1..Len(after[Len(after)]) :
                          after[Len(after)][c] =
                              IF c \in DOMAIN filled THEN filled[c] ELSE ""
                    /\ Len(after[Len(after)]) >= 7
      ]_vars

\* The description of a record as the adapter reads it.
DescriptionOf(record) == DictGet(record, "Description", "")

\* C13: the description of a day's row is append-only: a text added by
\* update_description is joined to the description read back before with the
\* separator '; ' (or becomes the description when that was empty), and a
\* clock-in or clock-out upsert on the row leaves the description as it was,
\* so the description read back holds every text added for the day, in order.
C13_DescriptionAppendOnly ==
    [][ \A user_id \in chat :
          LET before == RecordsOf(sh, user_id)
              after  == RecordsOf(sh', user_id)
          IN  /\ \A transcription \in Transcriptions \ {"None"} :
                    ( HasSession(user_id) /\ voice_handler(user_id, transcription) )
                    => \A i \in 1..Len(before) :
                          before[i]["Date"] = Today
                          => DescriptionOf(after[i]) =
                                IF DescriptionOf(before[i]) = "" THEN transcription
                                ELSE DescriptionOf(before[i]) \o "; " \o transcription
              /\ \A location \in Locations :
                    ( /\ HasSession(user_id)
                      /\ registered_users[user_id].awaiting_location
                      /\ location_handler(user_id, location.latitude, location.longitude) )
                    => \A i \in 1..Len(before) :
                          DescriptionOf(after[i]) = DescriptionOf(before[i])
      ]_vars

\* The user's sheet has a row of the date.
HasRowOf(book, user_id, date_str) ==
    \E i \in 1..Len(RowsOf(book, user_id)) : RowsOf(book, user_id)[i][1] = date_str

\* The string ends with the suffix.
EndsWith(s, suffix) ==
    /\ Len(s) >= Len(suffix)
    /\ SubSeq(s, Len(s) - Len(suffix) + 1, Len(s)) = suffix

\* A voice note with a transcription, from a user with a session, on a row of
\* today: update_description returns true (the note is acknowledged) after
\* writing the text to that row.
NoteWritten(user_id, transcription) ==
    /\ reply' = Notice(user_id, "voice", "voice_added", "")
    /\ \A i \in 1..Len(RowsOf(sh, user_id)) :
          IF RowsOf(sh, user_id)[i][1] = Today
          THEN EndsWith(DescriptionCell(RowsOf(sh', user_id)[i]), transcription)
          ELSE RowsOf(sh', user_id)[i] = RowsOf(sh, user_id)[i]

NotBelowAsText(a, b) ==
    \/ a[1] > b[1]
    \/ a[1] = b[1] /\ a[2] > b[2]
    \/ a[1] = b[1] /\ a[2] = b[2] /\ a[3] >= b[3]

\* What C15 says get_last_action returns for the records of a sheet.
LastActionOf(records) ==
    IF Len(records) = 0 THEN [action |-> "None", time |-> ""]
    ELSE LET greatest == CHOOSE i \in 1..Len(records) :
                            \A j \in 1..Len(records) :
                                NotBelowAsText(records[i]["Date"], records[j]["Date"])
             record   == records[greatest]
         IN  IF record["clock_out"] # ""
             THEN [action |-> "clock_out", time |-> record["clock_out"]]
             ELSE IF record["clock_in"] # ""
             THEN [action |-> "clock_in", time |-> record["clock_in"]]
             ELSE [action |-> "None", time |-> ""]

C16_LastActionAfterClockIn ==
    [][ \A user_id \in chat : \A location \in Locations :
          ( /\ Awaiting(user_id, "clock_in")
            /\ location_handler(user_id, location.latitude, location.longitude) )
          => get_last_action(sh', user_id) =
                [action |-> "clock_in",
                 time   |-> TimeStr(_get_local_time(location.latitude, location.longitude))]
      ]_vars

\* A step in which one of the handlers that create a missing session
\* (/start, /status, /config, a button press) handles an event of the user.
CreatingEvent(user_id) ==
    \/ start(user_id)
    \/ status_command(user_id)
    \/ config_command(user_id)
    \/ \E action \in {"clock_in", "clock_out", "config"} : button_callback(user_id, action)

\* A step in which a handler that asks for /start first (location share,
\* text, voice note, photo) handles an event of the user.
RequiringEvent(user_id) ==
    \/ \E location \in Locations :
          location_handler(user_id, location.latitude, location.longitude)
    \/ \E message_text \in Texts : text_handler(user_id, message_text)
    \/ \E transcription \in VoiceOutcomes : voice_handler(user_id, transcription)
    \/ \E extracted_data \in Extractions : image_handler(user_id, extracted_data)

C18_FreshSessionSeeded ==
    [][ \A user_id \in chat :
          ( ~HasSession(user_id) /\ CreatingEvent(user_id) )
          => LET last_action == get_last_action(sh, user_id)
                 user        == registered_users'[user_id]
             IN  /\ user.is_clocked_in = (last_action.action = "clock_in")
                 /\ last_action.action = "clock_in"
                       => user.last_clock_in = StrClockIn(last_action.time)
      ]_vars

\* The sheet C19 assigns to a user: Timesheet_<name> for a user of the
\* static user table, Timesheet_Unknown for any other.
OwnSheet(user_id) ==
    IF user_id = 1794622246 THEN "Timesheet_Shane_Hill"
    ELSE IF user_id = 495992751 THEN "Timesheet_Dmitry_Pozdniakov"
    ELSE "Timesheet_Unknown"

\* C19: a clock-in or clock-out by a user id absent from the static user
\* table writes only to the sheet Timesheet_Unknown, and one by a listed
\* user writes only to that user's own Timesheet_<name> sheet; no other
\* sheet changes.
C19_WritesOwnSheetOnly ==
    [][ \A user_id \in chat : \A location \in Locations :
        \A action \in {"clock_in", "clock_out"} :
          ( /\ Awaiting(user_id, action)
            /\ location_handler(user_id, location.latitude, location.longitude) )
          => LET local_time == _get_local_time(location.latitude, location.longitude)
             IN  /\ \A title \in DOMAIN sh' \ {OwnSheet(user_id)} :
                       title \in DOMAIN sh /\ sh'[title] = sh[title]
                 /\ OwnSheet(user_id) \in DOMAIN sh'
                 /\ \E i \in 1..Len(sh'[OwnSheet(user_id)].rows) :
                       LET row == sh'[OwnSheet(user_id)].rows[i]
                       IN  /\ row[1] = DateStr(local_time)
                           /\ row[IF action = "clock_in" THEN 2 ELSE 3] = TimeStr(local_time)
      ]_vars

\* C19, its case: a user outside the static user table has clocked in and
\* out; the rows are on Timesheet_Unknown and the listed users' sheets are
\* empty.
C19_Witness ==
    \E user_id \in chat \ DOMAIN users_config :
        /\ reply.to = user_id /\ reply.event = "location" /\ reply.notice = "clocked_out"
        /\ "Timesheet_Unknown" \in DOMAIN sh
        /\ Len(sh["Timesheet_Unknown"].rows) > 0
        /\ sh["Timesheet_Shane_Hill"].rows = <<>>
        /\ sh["Timesheet_Dmitry_Pozdniakov"].rows = <<>>

\* The rows of the configuration sheet.
ConfigRows(book) == book["User_Config"].rows

\* The indices of the configuration rows of a user id.
ConfigRowsOf(book, user_id) ==
    {i \in 1..Len(ConfigRows(book)) : ConfigRows(book)[i][1] = ToString(user_id)}

\* C20: the config sheet holds at most one row per user id: the first save
\* for a user appends a row, every later save for that user overwrites that
\* same row, and the rows of other users are unchanged.
C20_OneConfigRowPerUser ==
    [][ /\ \A i, j \in 1..Len(ConfigRows(sh')) :
              ConfigRows(sh')[i][1] = ConfigRows(sh')[j][1] => i = j
        /\ \A user_id \in chat : \A message_text \in Texts :
              ( /\ HasSession(user_id)
                /\ registered_users[user_id].config_step = "lunch_duration"
                /\ text_handler(user_id, message_text) )
              => LET before == ConfigRows(sh)
                     after  == ConfigRows(sh')
                 IN  /\ \A i \in 1..Len(before) :
                            before[i][1] # ToString(user_id) => after[i] = before[i]
                     /\ IF ConfigRowsOf(sh, user_id) = {}
                        THEN /\ Len(after) = Len(before) + 1
                             /\ ConfigRowsOf(sh', user_id) = {Len(after)}
                        ELSE /\ Len(after) = Len(before)
                             /\ ConfigRowsOf(sh', user_id) = ConfigRowsOf(sh, user_id)
                     /\ \A i \in ConfigRowsOf(sh', user_id) :
                            /\ after[i][6] = Strip(message_text)
                            /\ after[i][7] = now
      ]_vars

\* C20, its case: a save on the last day has been acknowledged; the user's
\* row stands below the row another user saved before, which is still the
\* first.
C20_Witness ==
    \E user_id \in chat :
        /\ Len(ConfigRows(sh)) = 2
        /\ ConfigRows(sh)[1][1] = "1794622246"
        /\ ConfigRowsOf(sh, user_id) = {2}
        /\ ConfigRows(sh)[2][7] = MaxTime
        /\ reply = Notice(user_id, "text", "config_saved", "")
        /\ wizard_log[user_id].texts = <<"a", "a", "a", " b ">>
        /\ ConfigRows(sh)[2][6] = "b"

HoursMinutes(seconds) ==
    ToString(seconds \div 3600) \o "h " \o ToString((seconds % 3600) \div 60) \o "m"

\* C22: the duration reported at a clock-out, s seconds after the clock-in,
\* is '{H}h {M}m' with H = s div 3600 and M = (s mod 3600) div 60, H not
\* capped at 24; a negative elapsed time, a missing start time and a start
\* time that cannot be parsed give '0h 0m'.
C22_ReportedDuration ==
    [][ /\ \A user_id \in chat : \A location \in Locations :
              ( /\ Awaiting(user_id, "clock_out")
                /\ registered_users[user_id].last_clock_in.type = "datetime"
                /\ location_handler(user_id, location.latitude, location.longitude) )
              => reply'.duration =
                     HoursMinutes((now - registered_users[user_id].last_clock_in.tick) * 43200)
        /\ \A seconds \in {-60, 0, 3660, 90000} :
              /\ _calculate_duration(NoClockIn, seconds) = "0h 0m"
              /\ _calculate_duration(StrClockIn("08:00:00"), seconds) = "0h 0m"
              /\ _calculate_duration(DatetimeClockIn(0), seconds) =
                     IF seconds < 0 THEN "0h 0m" ELSE HoursMinutes(seconds)
      ]_vars

\* The cell of a timesheet row an action sets: clock_in or clock_out.
ActionCell(action) == IF action = "clock_in" THEN 2 ELSE 3

\* A cell of the row a call found at its read ("" when it found none).
SeenCell(call, col) == IF col <= Len(call.seen) THEN call.seen[col] ELSE ""

\* C23: the upsert is not atomic.  When two add_time_record calls on one
\* sheet have both read before either writes, the later write puts the row
\* worked out at its read over the earlier one: for one date, the field the
\* earlier call set is back at the value it had before; for two dates
\* without a row, both write the same new row: the later write adds no row
\* and the row no longer has the earlier call's date.
C23_UpsertNotAtomic ==
    [][ \A later \in calls.reading :
          ( /\ calls'.reading = calls.reading \ {later}
            /\ calls'.written = calls.written + 1 )
          => LET before == sh[later.sheet_name].rows
                 after  == sh'[later.sheet_name].rows
             IN  /\ after[later.index - 1] = later.row_data
                 /\ \A earlier \in calls.done :
                       ( /\ earlier.sheet_name = later.sheet_name
                         /\ earlier.read_at = later.read_at )
                       => /\ earlier.date_str = later.date_str
                             => /\ earlier.index = later.index
                                /\ earlier.action # later.action
                                   => after[later.index - 1][ActionCell(earlier.action)]
                                        = SeenCell(earlier, ActionCell(earlier.action))
                          /\ ( /\ earlier.date_str # later.date_str
                               /\ earlier.existing_row = 0
                               /\ later.existing_row = 0 )
                             => /\ earlier.index = later.index
                                /\ Len(after) = Len(before)
                                /\ after[later.index - 1][1] # earlier.date_str
      ]_vars

\* C23, its case: three calls on one sheet had all read before any wrote,
\* and all have written.  A clock_in and a clock_out of one date: the row
\* has the clock_out and no clock_in.  A call of another date that wrote
\* before them at the same index: its date is on no row.
C23_Witness ==
    /\ calls.begun = 3
    /\ calls.reading = {}
    /\ \E first, earlier, later \in calls.done :
          /\ first.read_at = 0 /\ earlier.read_at = 0 /\ later.read_at = 0
          /\ first.wrote_at < earlier.wrote_at
          /\ earlier.wrote_at < later.wrote_at
          /\ first.date_str # later.date_str
          /\ first.index = later.index
          /\ earlier.date_str = later.date_str
          /\ earlier.action = "clock_in"
          /\ later.action = "clock_out"
          /\ LET rows == sh[later.sheet_name].rows
             IN  /\ Len(rows) = 1
                 /\ rows[1][1] = later.date_str
                 /\ rows[1][2] = ""
                 /\ rows[1][3] = later.time_str

\* The titles of the users' timesheets.
Timesheets == {get_user_sheet_name(user_id) : user_id \in Users}

\* C24: no operation of the bot (clock-in, clock-out, description update,
\* configuration save, status) removes a row of a timesheet or changes the
\* Date of a row: every timesheet is still there after a step, has at least
\* as many rows, and each of its rows has the Date it had.
C24_RowsKept ==
    [][ \A title \in Timesheets \cap DOMAIN sh :
          /\ title \in DOMAIN sh'
          /\ Len(sh'[title].rows) >= Len(sh[title].rows)
          /\ \A i \in 1..Len(sh[title].rows) :
                sh'[title].rows[i][1] = sh[title].rows[i][1]
      ]_vars

\* C24, its case: a timesheet holds the rows of two days, the first with a
\* clock-in, a clock-out and a voice note, the second written after it; the
\* user's configuration was saved and /status was the last event.
C24_Witness ==
    \E user_id \in chat :
        /\ Len(RowsOf(sh, user_id)) = 2
        /\ RowsOf(sh, user_id)[1][1] = <<30, 11, 2026>>
        /\ RowsOf(sh, user_id)[1][2] # ""
        /\ RowsOf(sh, user_id)[1][3] # ""
        /\ RowsOf(sh, user_id)[1][9] = "v"
        /\ RowsOf(sh, user_id)[2][1] = <<1, 12, 2026>>
        /\ ConfigRowsOf(sh, user_id) # {}
        /\ reply.event = "status"

ClockCells(row) == [c \in 2..7 |-> IF c <= Len(row) THEN row[c] ELSE ""]

\* C26: a voice or photo event, whatever its outcome (success, nothing
\* returned, failure), leaves every field of every session as it was and
\* changes no clock_in, clock_out or coordinate cell of a timesheet row.
C26_VoicePhotoKeepClock ==
    [][ \A user_id \in chat :
          ( \/ \E transcription \in VoiceOutcomes :
                  voice_handler(user_id, transcription)
            \/ \E extracted_data \in Extractions :
                  image_handler(user_id, extracted_data) )
          => /\ registered_users' = registered_users
             /\ \A title \in Timesheets \cap DOMAIN sh :
                   /\ title \in DOMAIN sh'
                   /\ Len(sh'[title].rows) = Len(sh[title].rows)
                   /\ \A i \in 1..Len(sh[title].rows) :
                         ClockCells(sh'[title].rows[i]) = ClockCells(sh[title].rows[i])
             /\ \A title \in Timesheets \ DOMAIN sh :
                   title \in DOMAIN sh' => sh'[title].rows = <<>>
      ]_vars

\* C26, its case: a voice note has been added to the row of a user who is
\* clocked in and has pressed clock_out; the row has its clock_in and
\* coordinates, the session still awaits the location.
C26_Witness ==
    \E user_id \in chat :
        /\ reply = Notice(user_id, "voice", "voice_added", "")
        /\ Awaiting(user_id, "clock_out")
        /\ registered_users[user_id].is_clocked_in
        /\ Len(RowsOf(sh, user_id)) = 1
        /\ RowsOf(sh, user_id)[1][2] = "08:00:00"
        /\ RowsOf(sh, user_id)[1][4] = "525"
        /\ RowsOf(sh, user_id)[1][9] = "v"

\* C27: no operation of the adapter surfaces a missing worksheet as an
\* error.  The reads give null, empty or false: /start, /status and a voice
\* note are answered without the error notice.  The writes create the
\* missing sheet and complete: after a requested location share the user's
\* timesheet exists and has the row of the day, after the wizard's last
\* answer User_Config exists and has the user's row.
C27_MissingSheetRecovered ==
    [][ \A user_id \in chat :
          /\ ( \/ start(user_id)
               \/ status_command(user_id)
               \/ \E transcription \in Transcriptions :
                     HasSession(user_id) /\ voice_handler(user_id, transcription) )
             => reply'.notice # "unexpected_error"
          /\ ( /\ Awaiting(user_id, "clock_in") \/ Awaiting(user_id, "clock_out")
               /\ location_handler(user_id, 525, 134) )
             => /\ get_user_sheet_name(user_id) \in DOMAIN sh'
                /\ HasRowOf(sh', user_id, DateStr(_get_local_time(525, 134)))
          /\ ( /\ HasSession(user_id)
               /\ registered_users[user_id].config_step = "lunch_duration"
               /\ text_handler(user_id, "a") )
             => /\ "User_Config" \in DOMAIN sh'
                /\ ConfigRowsOf(sh', user_id) # {}
      ]_vars

C29_StartupFailureExitsNonZero ==
    (process.phase = "exited" /\ process.failed # "None") => process.status # 0

\* The wizard of a user is in progress: the session has an active step.
InWizard(user_id) ==
    /\ HasSession(user_id)
    /\ registered_users[user_id].config_step # "None"

\* C30: while a user's wizard is in progress, /start, /status, /help, a
\* clock_in or clock_out press, a location share, a voice message, a photo
\* and the passing of time leave the session's config_step and temp_config
\* as they were.
C30_WizardKept ==
    [][ \A user_id \in chat :
          ( /\ InWizard(user_id)
            /\ \/ start(user_id)
               \/ status_command(user_id)
               \/ help_command(user_id)
               \/ \E action \in {"clock_in", "clock_out"} :
                     button_callback(user_id, action)
               \/ \E location \in Locations :
                     location_handler(user_id, location.latitude, location.longitude)
               \/ \E transcription \in VoiceOutcomes :
                     voice_handler(user_id, transcription)
               \/ \E extracted_data \in Extractions :
                     image_handler(user_id, extracted_data)
               \/ now' # now )
          => /\ HasSession(user_id)'
             /\ registered_users'[user_id].config_step =
                   registered_users[user_id].config_step
             /\ registered_users'[user_id].temp_config =
                   registered_users[user_id].temp_config
      ]_vars

\* C30, its case: a wizard at its third question, two answers kept, after
\* the user clocked in, time passed and the user sent a photo.
C30_Witness ==
    \E user_id \in chat :
        /\ InWizard(user_id)
        /\ registered_users[user_id].config_step = "contractor_name"
        /\ DOMAIN registered_users[user_id].temp_config # {}
        /\ registered_users[user_id].is_clocked_in
        /\ now = MaxWait
        /\ reply.event = "photo"

\* C31: in every session awaiting_location is true exactly when
\* pending_action is set, and pending_action is then clock_in or clock_out;
\* a clock_in or clock_out press while a location is awaited leaves one
\* pending action: the pressed one when the press is accepted, the earlier
\* one when it is refused.
C31_OnePendingAction ==
    /\ [](\A user_id \in DOMAIN registered_users :
            /\ registered_users[user_id].awaiting_location
                  <=> registered_users[user_id].pending_action # "None"
            /\ registered_users[user_id].pending_action
                  \in {"None", "clock_in", "clock_out"})
    /\ [][ \A user_id \in chat : \A action \in {"clock_in", "clock_out"} :
              ( /\ HasSession(user_id)
                /\ registered_users[user_id].awaiting_location
                /\ button_callback(user_id, action) )
              => /\ registered_users'[user_id].awaiting_location
                 /\ registered_users'[user_id].pending_action =
                       IF registered_users[user_id].is_clocked_in = (action = "clock_out")
                       THEN action
                       ELSE registered_users[user_id].pending_action
          ]_vars

\* C31, its case: a user awaits the location of the clock_out just pressed,
\* in a session that /start had set to clocked in from the sheet.
C31_Witness ==
    \E user_id \in chat :
        /\ Awaiting(user_id, "clock_out")
        /\ reply = Notice(user_id, "clock_out", "location_prompt", "")
        /\ registered_users[user_id].last_clock_in.type = "str"

\* C32: when /start is handled for a user whose session awaits a location,
\* the session afterwards awaits no location and has no pending action.
C32_StartEndsAwaiting ==
    [][ \A user_id \in chat :
          ( /\ HasSession(user_id)
            /\ registered_users[user_id].awaiting_location
            /\ start(user_id) )
          => /\ ~registered_users'[user_id].awaiting_location
             /\ registered_users'[user_id].pending_action = "None"
      ]_vars

\* C33: the main keyboard of a session offers clock_out exactly when
\* is_clocked_in is true, clock_in and config exactly when it is false, and
\* never clock_in together with clock_out.
C33_KeyboardFollowsClock ==
    \A user_id \in DOMAIN registered_users :
        LET user     == registered_users[user_id]
            keyboard == get_main_keyboard(user)
        IN  /\ "clock_out" \in keyboard <=> user.is_clocked_in
            /\ "clock_in" \in keyboard <=> ~user.is_clocked_in
            /\ "config" \in keyboard <=> ~user.is_clocked_in
            /\ ~({"clock_in", "clock_out"} \subseteq keyboard)

\* C33, its case: a clock-in was completed; the keyboard sent after it
\* holds the clock_out button alone.
C33_Witness ==
    \E user_id \in chat :
        /\ HasSession(user_id)
        /\ reply = Notice(user_id, "location", "clocked_in", "")
        /\ registered_users[user_id].is_clocked_in
        /\ get_main_keyboard(registered_users[user_id]) = {"clock_out"}

\* C34: within one process run, right after a completed clock-in or
\* clock-out the session's is_clocked_in equals (get_last_action reports
\* clock_in), and /start never changes the is_clocked_in of a session that
\* has no clock action pending.
C34_SessionAgreesWithLastAction ==
    /\ [](\A user_id \in chat :
            ( /\ HasSession(user_id)
              /\ reply.to = user_id
              /\ reply.notice \in {"clocked_in", "clocked_out"} )
            => ( registered_users[user_id].is_clocked_in
                   <=> get_last_action(sh, user_id).action = "clock_in" ))
    /\ [][ \A user_id \in chat :
              ( /\ HasSession(user_id)
                /\ ~registered_users[user_id].awaiting_location
                /\ start(user_id) )
              => registered_users'[user_id].is_clocked_in
                   = registered_users[user_id].is_clocked_in
          ]_vars

\* C35: in every session is_clocked_in is true exactly when last_clock_in
\* is set.
C35_ClockedInIffLastClockIn ==
    \A user_id \in DOMAIN registered_users :
        registered_users[user_id].is_clocked_in
            <=> registered_users[user_id].last_clock_in.type # "None"

\* C36: a location share that writes a clock_in finds the session not
\* clocked in, and one that writes a clock_out finds it clocked in.
C36_WriteMatchesClockState ==
    [][ \A user_id \in chat : \A location \in Locations :
          ( /\ HasSession(user_id)
            /\ registered_users[user_id].awaiting_location
            /\ registered_users[user_id].pending_action \in {"clock_in", "clock_out"}
            /\ ~add_time_record_raises(sh, user_id)
            /\ location_handler(user_id, location.latitude, location.longitude) )
          => ( registered_users[user_id].is_clocked_in
                 <=> registered_users[user_id].pending_action = "clock_out" )
      ]_vars

\* C37: a location share of a user with a pending clock action either
\* fails, and then leaves the session and the workbook as they were, or
\* writes the row and updates is_clocked_in, last_clock_in,
\* awaiting_location and pending_action of the session.
C37_LocationAllOrNothing ==
    [][ \A user_id \in chat : \A location \in Locations :
          ( /\ HasSession(user_id)
            /\ registered_users[user_id].awaiting_location
            /\ registered_users[user_id].pending_action \in {"clock_in", "clock_out"}
            /\ location_handler(user_id, location.latitude, location.longitude) )
          => LET user   == registered_users[user_id]
                 action == user.pending_action
             IN  IF reply'.notice = "unexpected_error"
                 THEN /\ registered_users' = registered_users
                      /\ sh' = sh
                 ELSE /\ sh' = add_time_record(sh, user_id, action,
                                    location.latitude, location.longitude)
                      /\ registered_users'[user_id].is_clocked_in = (action = "clock_in")
                      /\ registered_users'[user_id].last_clock_in =
                            IF action = "clock_in" THEN DatetimeClockIn(now) ELSE NoClockIn
                      /\ ~registered_users'[user_id].awaiting_location
                      /\ registered_users'[user_id].pending_action = "None"
      ]_vars

\* A row holds coordinates that the user shared: the row, or a field of it,
\* was written for that user.
WrittenFor(row, user_id) ==
    \E col \in {4, 6} :
        /\ col <= Len(row)
        /\ row[col] = OrBlank(PlaceOf(user_id).latitude)

\* C38: a clock-in or clock-out recorded for one user leaves every row
\* written for another user as it was, also when neither user is in
\* users_config and both use the sheet Timesheet_Unknown on one date.
C38_OtherUsersRowsKept ==
    [][ \A user_id \in chat : \A other \in chat \ {user_id} :
          ( /\ HasSession(user_id)
            /\ registered_users[user_id].awaiting_location
            /\ registered_users[user_id].pending_action \in {"clock_in", "clock_out"}
            /\ location_handler(user_id, PlaceOf(user_id).latitude,
                                PlaceOf(user_id).longitude) )
          => LET title == get_user_sheet_name(other)
             IN  title \in DOMAIN sh
                 => \A i \in 1..Len(sh[title].rows) :
                       WrittenFor(sh[title].rows[i], other)
                       => /\ i <= Len(sh'[title].rows)
                          /\ sh'[title].rows[i] = sh[title].rows[i]
      ]_vars

====
